---------------------------- MODULE Spec2Model ----------------------------
(***************************************************************************)
(* Model of the e_encoder calldata pipeline: the selector encoder          *)
(* (encode_input), the atomic bundler (create_multitrade_calldata), the    *)
(* swap dispatcher (process_swap) and the orchestrator loop (main).        *)
(* Byte strings are sequences over 0..255; ABI words are 32 bytes wide.    *)
(***************************************************************************)
EXTENDS Integers, Sequences, FiniteSets, TLC

VARIABLES
    pc,                 \* control position of the running specification
    selector,           \* encode_input: the signature argument
    encoded_args,       \* encode_input: the argument bytes as passed in
    call_data,          \* encode_input: the returned bytes
    stripped,           \* bytes after `strips` applications of the strip step
    strips,             \* how many times the strip step has run
    token_address,      \* create_multitrade_calldata: arguments
    executor_address,
    approve_calldata,
    swap_calldata,
    encoded_data,       \* create_multitrade_calldata: the returned bytes
    sell_token,         \* process_swap: arguments
    buy_token,
    amount_in,
    amount_out,
    private_key,
    encoder,            \* what encoder.encode_solutions answers
    solution,           \* the Solution handed to the encoder, if it was called
    result,             \* process_swap: how the call ended
    RPC_URL,            \* main: environment, read once at startup
    PRIVATE_KEY,
    received,           \* main: messages taken from the stream so far
    states,             \* main: m.states of the message being processed
    pairs,              \* main: m.new_pairs of the message being processed
    pending,            \* main: pool ids the for loop has not yet visited
    bundled,            \* main: bundles logged while processing this message
    errors_logged,      \* main: stream errors logged so far
    last                \* main: what the latest for-loop iteration did

vars == <<pc, selector, encoded_args, call_data, stripped, strips,
          token_address, executor_address, approve_calldata, swap_calldata,
          encoded_data, sell_token, buy_token, amount_in, amount_out,
          private_key, encoder, solution, result, RPC_URL, PRIVATE_KEY,
          received, states, pairs, pending, bundled, errors_logged, last>>

encVars == <<selector, encoded_args, call_data, stripped, strips>>
bundleVars == <<token_address, executor_address, approve_calldata,
                swap_calldata, encoded_data>>
swapVars == <<sell_token, buy_token, amount_in, amount_out, private_key,
              encoder, solution, result>>
mainVars == <<RPC_URL, PRIVATE_KEY, received, states, pairs, pending, bundled,
              errors_logged, last>>

---------------------------------------------------------------------------
(* Bounds of the model.                                                    *)

MaxStrips == 2
MaxMessages == 2

\* Absent values: of a byte string, and of a record.
NoBytes == <<-1>>
None == [kind |-> "None"]

\* The parts of the state a specification does not use stay at these values.
EncodeIdle ==
    /\ selector = ""
    /\ encoded_args = <<>>
    /\ call_data = NoBytes
    /\ stripped = <<>>
    /\ strips = 0

BundleIdle ==
    /\ token_address = 0
    /\ executor_address = 0
    /\ approve_calldata = <<>>
    /\ swap_calldata = <<>>
    /\ encoded_data = NoBytes

SwapIdle ==
    /\ sell_token = None
    /\ buy_token = None
    /\ amount_in = 0
    /\ amount_out = 0
    /\ private_key = ""
    /\ encoder = None
    /\ solution = None
    /\ result = None

MainIdle ==
    /\ RPC_URL = ""
    /\ PRIVATE_KEY = ""
    /\ received = 0
    /\ states = << >>
    /\ pairs = {}
    /\ pending = {}
    /\ bundled = {}
    /\ errors_logged = 0
    /\ last = None

---------------------------------------------------------------------------
(* Bytes and ABI words.                                                    *)

WordSize == 32

Zeros(n) == [i \in 1..n |-> 0]

\* uint256 / address as one big-endian 32-byte word (values below 2^31).
Word(n) == [i \in 1..WordSize |->
              IF i <= WordSize - 4 THEN 0 ELSE (n \div (256 ^ (WordSize - i))) % 256]

\* Right padding of dynamic bytes to a multiple of 32.
Pad32(b) == b \o Zeros((WordSize - (Len(b) % WordSize)) % WordSize)

\* ABI tail of a `bytes` value: length word, then the padded data.
EncBytes(b) == Word(Len(b)) \o Pad32(b)

RECURSIVE Concat(_)
Concat(ss) == IF ss = <<>> THEN <<>> ELSE Head(ss) \o Concat(Tail(ss))

---------------------------------------------------------------------------
(* Selector encoder: src/src/encoding.rs encode_input.                     *)

SIG_APPROVE == "approve(address,uint256)"
SIG_SINGLE == "singleSwap(uint256,address,address,uint256,bool,bool,address,bool,bytes)"
SIG_SEQUENTIAL == "sequentialSwap(uint256,address,address,uint256,bool,bool,address,bool,bytes)"
SIG_SPLIT == "splitSwap(uint256,address,address,uint256,bool,bool,uint256,address,bool,bytes)"
SIG_SINGLE_PERMIT2 == "singleSwapPermit2(uint256,address,address,uint256,bool,bool,address,((address,uint160,uint48,uint48),address,uint256),bytes,bytes)"
SIG_EXECUTOR == "swap(uint256,bytes)"
SIG_EMPTY == ""
SIG_EXECUTE_INTERACTIONS == "executeInteractions((address,uint256,bytes)[],address,uint8)"

Signatures == {SIG_APPROVE, SIG_SINGLE, SIG_SEQUENTIAL, SIG_SPLIT,
               SIG_SINGLE_PERMIT2, SIG_EXECUTOR, SIG_EMPTY}

\* First four bytes of keccak256 over the signature text.
Keccak4(sig) ==
    CASE sig = SIG_APPROVE -> <<9, 94, 167, 179>>
      [] sig = SIG_SINGLE -> <<92, 75, 99, 156>>
      [] sig = SIG_SEQUENTIAL -> <<226, 29, 208, 211>>
      [] sig = SIG_SPLIT -> <<230, 95, 254, 124>>
      [] sig = SIG_SINGLE_PERMIT2 -> <<48, 172, 225, 177>>
      [] sig = SIG_EXECUTOR -> <<189, 6, 37, 171>>
      [] sig = SIG_EMPTY -> <<197, 210, 70, 1>>
      [] sig = SIG_EXECUTE_INTERACTIONS -> <<40, 51, 193, 206>>

\* [0u8; 31] chained with [32]
DynamicPrefix == Zeros(31) \o <<32>>

strip_prefix_ge(args) ==
    IF Len(args) >= 32 /\ SubSeq(args, 1, 32) = DynamicPrefix
    THEN SubSeq(args, 33, Len(args))
    ELSE args

\* The strip step of encode_input.
strip_prefix(args) ==
    IF Len(args) > 32 /\ SubSeq(args, 1, 32) = DynamicPrefix
    THEN SubSeq(args, 33, Len(args))
    ELSE args

encode_input_by_signature(sig, args) ==
    Keccak4(sig) \o (IF sig = SIG_APPROVE THEN args ELSE strip_prefix(args))

encode_input(sig, args) == Keccak4(sig) \o strip_prefix(args)

\* Argument byte strings handed to encode_input.
ArgSamples ==
    { <<>>,
      <<32>>,
      Zeros(31),
      DynamicPrefix,
      Word(33),
      Zeros(32),
      DynamicPrefix \o <<7>>,
      Zeros(31) \o <<32, 32>>,
      Word(33) \o DynamicPrefix,
      Word(7) \o Word(1000),
      DynamicPrefix \o Word(7),
      DynamicPrefix \o DynamicPrefix,
      DynamicPrefix \o DynamicPrefix \o <<7>>,
      DynamicPrefix \o DynamicPrefix \o Word(7),
      DynamicPrefix \o Word(7) \o DynamicPrefix,
      DynamicPrefix \o DynamicPrefix \o DynamicPrefix \o <<1, 2, 3>> }

InitEncode ==
    /\ pc = "encode"
    /\ selector \in Signatures
    /\ encoded_args \in ArgSamples
    /\ call_data = NoBytes
    /\ stripped = encoded_args
    /\ strips = 0
    /\ BundleIdle
    /\ SwapIdle
    /\ MainIdle

EncodeInput ==
    /\ pc = "encode"
    /\ call_data = NoBytes
    /\ call_data' = encode_input(selector, encoded_args)
    /\ UNCHANGED <<pc, selector, encoded_args, stripped, strips>>
    /\ UNCHANGED <<bundleVars, swapVars, mainVars>>

\* The strip step applied to its own result.
Strip ==
    /\ pc = "encode"
    /\ strips < MaxStrips
    /\ stripped' = strip_prefix(stripped)
    /\ strips' = strips + 1
    /\ UNCHANGED <<pc, selector, encoded_args, call_data>>
    /\ UNCHANGED <<bundleVars, swapVars, mainVars>>

NextEncode == EncodeInput \/ Strip

SpecEncode == InitEncode /\ [][NextEncode]_vars

---------------------------------------------------------------------------
(* Atomic bundler: src/src/encoding.rs create_multitrade_calldata.         *)

\* struct Data { address target; uint256 value; bytes callData; }
Data(target, value, callData) ==
    [target |-> target, value |-> value, callData |-> callData]

\* ABI encoding of one Data: two static words, the offset of callData
\* (three head words), then the bytes tail.
EncData(d) ==
    Word(d.target) \o Word(d.value) \o Word(3 * WordSize) \o EncBytes(d.callData)

\* ABI encoding of Data[]: length, one offset per element (relative to the
\* first offset word), then the elements.
EncDataArray(ds) ==
    LET n == Len(ds)
        elems == [i \in 1..n |-> EncData(ds[i])]
        off[i \in 1..n] == IF i = 1 THEN n * WordSize
                           ELSE off[i - 1] + Len(elems[i - 1])
    IN Word(n) \o Concat([i \in 1..n |-> Word(off[i])]) \o Concat(elems)

\* executeInteractionsCall::new((interactions, tokenAddress, isTest)).abi_encode():
\* the selector, three head words, then the array tail.
executeInteractionsCall_abi_encode(interactions, tokenAddress, isTest) ==
    Keccak4(SIG_EXECUTE_INTERACTIONS)
        \o Word(3 * WordSize) \o Word(tokenAddress) \o Word(isTest)
        \o EncDataArray(interactions)

create_multitrade_calldata_swapped(token, executor, approve, swap) ==
    executeInteractionsCall_abi_encode(
        << Data(executor, 0, swap), Data(token, 0, approve) >>, token, 1)

create_multitrade_calldata(token, executor, approve, swap) ==
    executeInteractionsCall_abi_encode(
        << Data(token, 0, approve), Data(executor, 0, swap) >>, token, 1)

\* Addresses (20-byte values, here below 2^31) and payloads given to the bundler.
Addresses == {17, 32, 4660}

PayloadSamples ==
    { <<>>,
      <<1>>,
      Word(7),
      encode_input(SIG_APPROVE, Word(4660) \o Word(1000)) }

InitBundle ==
    /\ pc = "bundle"
    /\ EncodeIdle
    /\ SwapIdle
    /\ MainIdle
    /\ token_address \in Addresses
    /\ executor_address \in Addresses
    /\ approve_calldata \in PayloadSamples
    /\ swap_calldata \in PayloadSamples
    /\ encoded_data = NoBytes

CreateMultitradeCalldata ==
    /\ pc = "bundle"
    /\ encoded_data = NoBytes
    /\ encoded_data' = create_multitrade_calldata(
                           token_address, executor_address,
                           approve_calldata, swap_calldata)
    /\ UNCHANGED <<pc, token_address, executor_address, approve_calldata,
                   swap_calldata>>
    /\ UNCHANGED <<encVars, swapVars, mainVars>>

NextBundle == CreateMultitradeCalldata

SpecBundle == InitBundle /\ [][NextBundle]_vars

---------------------------------------------------------------------------
(* Swap dispatcher: src/src/stream_handler.rs process_swap.                *)

\* Tokens: chain address (20 bytes, here below 2^31), symbol, decimals.
WBTC == [address |-> 8793, symbol |-> "WBTC", decimals |-> 8]
USDC == [address |-> 18507, symbol |-> "USDC", decimals |-> 6]

\* crate::consts, imported by process_swap.
OUR_CONTRACT == "OUR_CONTRACT"
ARBITRAGE_WALLET_ADDRESS == "ARBITRAGE_WALLET_ADDRESS"

\* Private keys by how they parse: 64 hex digits of a usable scalar, text
\* that is no 32-byte hex string, and 32 zero bytes (no secp256k1 scalar).
PrivateKeys == {"key_ok", "key_not_hex", "key_zero"}

B256_from_str_ok(pk) == pk # "key_not_hex"

PrivateKeySigner_from_bytes_ok(pk) == pk # "key_zero"

\* signer.address()
SignerAddress(pk) == 2989

Ok(tx) == [kind |-> "Ok", tx |-> tx, error |-> ""]
Err(msg) == [kind |-> "Err", tx |-> None, error |-> msg]
\* The call unwinds without returning a value.
Panic(msg) == [kind |-> "Panic", tx |-> None, error |-> msg]

\* str::contains
Contains(s, sub) ==
    \E i \in 1..(Len(s) - Len(sub) + 1) : SubSeq(s, i, i + Len(sub) - 1) = sub

slippage_tolerance == 5

min_amount_out_no_slippage(quoted) == quoted

\* amount_out * (100 - slippage_tolerance) / 100, on unbounded integers
min_amount_out(quoted) == (quoted * (100 - slippage_tolerance)) \div 100

BoolWord(b) == Word(IF b THEN 1 ELSE 0)

\* (f1, ..., fn, bytes).abi_encode(): the tuple is dynamic, so it is wrapped
\* as one value: an offset word of 32, the n static words, the offset of the
\* bytes within the tuple, and the bytes tail.
abi_encode_with_bytes(words, bytes) ==
    Word(WordSize) \o Concat(words) \o Word((Len(words) + 1) * WordSize)
        \o EncBytes(bytes)

\* (address, uint256).abi_encode(): a static tuple, two words.
abi_encode_approve_args(spender, amount) == Word(spender) \o Word(amount)

Bail == <<-2>>

method_calldata_receiver_last(encoded, sol, min_out) ==
    LET wrap == FALSE
        unwrap == FALSE
        transfer_from == TRUE
    IN IF \/ Contains(encoded.function_signature, "singleSwap")
          \/ Contains(encoded.function_signature, "sequentialSwap")
       THEN abi_encode_with_bytes(
                << Word(sol.given_amount), Word(sol.given_token),
                   Word(sol.checked_token), Word(min_out), BoolWord(wrap),
                   BoolWord(unwrap), BoolWord(transfer_from),
                   Word(sol.receiver) >>,
                encoded.swaps)
       ELSE IF Contains(encoded.function_signature, "splitSwap")
       THEN abi_encode_with_bytes(
                << Word(sol.given_amount), Word(sol.given_token),
                   Word(sol.checked_token), Word(min_out), BoolWord(wrap),
                   BoolWord(unwrap), Word(encoded.n_tokens),
                   BoolWord(transfer_from), Word(sol.receiver) >>,
                encoded.swaps)
       ELSE Bail

method_calldata_best_effort(encoded, sol, min_out) ==
    abi_encode_with_bytes(
        << Word(sol.given_amount), Word(sol.given_token),
           Word(sol.checked_token), Word(min_out), BoolWord(FALSE),
           BoolWord(FALSE), Word(sol.receiver), BoolWord(TRUE) >>,
        encoded.swaps)

\* The dispatcher: the argument tuple chosen by the function signature.
method_calldata(encoded, sol, min_out) ==
    LET wrap == FALSE
        unwrap == FALSE
        transfer_from == TRUE
    IN IF Contains(encoded.function_signature, "singleSwap")
       THEN abi_encode_with_bytes(
                << Word(sol.given_amount), Word(sol.given_token),
                   Word(sol.checked_token), Word(min_out), BoolWord(wrap),
                   BoolWord(unwrap), Word(sol.receiver),
                   BoolWord(transfer_from) >>,
                encoded.swaps)
       ELSE IF Contains(encoded.function_signature, "sequentialSwap")
       THEN abi_encode_with_bytes(
                << Word(sol.given_amount), Word(sol.given_token),
                   Word(sol.checked_token), Word(min_out), BoolWord(wrap),
                   BoolWord(unwrap), Word(sol.receiver),
                   BoolWord(transfer_from) >>,
                encoded.swaps)
       ELSE IF Contains(encoded.function_signature, "splitSwap")
       THEN abi_encode_with_bytes(
                << Word(sol.given_amount), Word(sol.given_token),
                   Word(sol.checked_token), Word(min_out), BoolWord(wrap),
                   BoolWord(unwrap), Word(encoded.n_tokens),
                   Word(sol.receiver), BoolWord(transfer_from) >>,
                encoded.swaps)
       ELSE Bail

\* Swap { .. } and Solution { .. } as process_swap fills them in.
build_solution(signer, sell, buy, amt_in, min_out) ==
    [sender |-> signer,
     receiver |-> signer,
     given_token |-> sell.address,
     given_amount |-> amt_in,
     checked_token |-> buy.address,
     exact_out |-> FALSE,
     checked_amount |-> min_out,
     swaps |-> << [token_in |-> sell.address,
                   token_out |-> buy.address,
                   split |-> 0,
                   estimated_amount_in |-> amt_in] >>]

\* The part of process_swap after encode_solutions has answered Ok.
finish_swap(sell, amt_in, min_out, sol, encoded_solutions) ==
    IF encoded_solutions = <<>>
    THEN Panic("index out of bounds")
    ELSE LET encoded == encoded_solutions[1]
             router_address == encoded.interacting_with
             calldata == method_calldata(encoded, sol, min_out)
         IN IF calldata = Bail
            THEN Err("Unsupported function signature")
            ELSE LET swap_cd == encode_input(encoded.function_signature, calldata)
                     approve_cd == encode_input(SIG_APPROVE,
                                       abi_encode_approve_args(router_address, amt_in))
                     data == create_multitrade_calldata(
                                 sell.address, router_address, approve_cd, swap_cd)
                 IN Ok([to |-> OUR_CONTRACT,
                        from |-> ARBITRAGE_WALLET_ADDRESS,
                        input |-> data,
                        value |-> 0])

\* process_swap: the Solution it hands to the encoder (None when it returns
\* before) and how the call ends.
process_swap(sell, buy, amt_in, amt_out, pk, enc) ==
    IF ~B256_from_str_ok(pk)
    THEN [solution |-> None, result |-> Err("B256::from_str")]
    ELSE IF ~PrivateKeySigner_from_bytes_ok(pk)
    THEN [solution |-> None, result |-> Err("PrivateKeySigner::from_bytes")]
    ELSE LET min_out == min_amount_out(amt_out)
             sol == build_solution(SignerAddress(pk), sell, buy, amt_in, min_out)
         IN [solution |-> sol,
             result |-> IF enc.kind = "Err"
                        THEN Err("encode_solutions")
                        ELSE finish_swap(sell, amt_in, min_out, sol, enc.solutions)]

\* What a TychoEncoder may answer: an error, an empty list, or one
\* EncodedSolution.
EncoderSignatures ==
    {SIG_SINGLE, SIG_SEQUENTIAL, SIG_SPLIT, SIG_SINGLE_PERMIT2, SIG_EXECUTOR,
     SIG_EMPTY}

RouteSamples == { <<>>, <<171, 205, 239>> }

EncodedSolutions ==
    [function_signature : EncoderSignatures,
     interacting_with : {4660, 32},
     swaps : RouteSamples,
     n_tokens : {2}]

EncoderAnswers ==
    {[kind |-> "Err", solutions |-> <<>>], [kind |-> "Ok", solutions |-> <<>>]}
        \cup {[kind |-> "Ok", solutions |-> <<e>>] : e \in EncodedSolutions}

AmountsIn == {32, 1000}
AmountsOut == {0, 1, 19, 21, 100, 199999}

InitSwap ==
    /\ pc = "process_swap"
    /\ EncodeIdle
    /\ BundleIdle
    /\ MainIdle
    /\ sell_token \in {WBTC, USDC}
    /\ buy_token \in {WBTC, USDC} \ {sell_token}
    /\ amount_in \in AmountsIn
    /\ amount_out \in AmountsOut
    /\ private_key \in PrivateKeys
    /\ encoder \in EncoderAnswers
    /\ solution = None
    /\ result = None

ProcessSwap ==
    /\ pc = "process_swap"
    /\ LET r == process_swap(sell_token, buy_token, amount_in, amount_out,
                             private_key, encoder)
       IN /\ solution' = r.solution
          /\ result' = r.result
    /\ pc' = "returned"
    /\ UNCHANGED <<sell_token, buy_token, amount_in, amount_out, private_key,
                   encoder>>
    /\ UNCHANGED <<encVars, bundleVars, mainVars>>

NextSwap == ProcessSwap

SpecSwap == InitSwap /\ [][NextSwap]_vars

---------------------------------------------------------------------------
(* Orchestrator: src/src/main.rs main, from the message loop on.           *)

\* Pools of the stream; component.tokens of each (sell token first).
PoolIds == {"pool_a", "pool_b", "pool_c"}

component_tokens(id) ==
    IF id = "pool_c" THEN << USDC, WBTC >> ELSE << WBTC, USDC >>

\* What states.get_amount_out answers for a pool: an error or an amount.
QuoteErr == [ok |-> FALSE, amount |-> 0]
QuoteAnswers == {QuoteErr, [ok |-> TRUE, amount |-> 50000000]}

\* Environment values by how they parse.
RpcUrls == {"url_ok", "url_unparsable"}

Url_from_str_ok(url) == url # "url_unparsable"

\* What TychoExecutorEncoderBuilder::build and encode_solutions may answer.
BuilderAnswers == {"Ok", "Err"}

MainEncoderAnswers ==
    {[kind |-> "Err", solutions |-> <<>>], [kind |-> "Ok", solutions |-> <<>>]}
        \cup {[kind |-> "Ok", solutions |-> <<e>>] :
                e \in [function_signature : {SIG_EMPTY, SIG_SINGLE},
                       interacting_with : {4660},
                       swaps : {<<171, 205, 239>>},
                       n_tokens : {2}]}

\* (1f64 * 10f64.powi(decimals)) as u128
unit_amount(token) == 10 ^ token.decimals

\* How one iteration of the for loop ends: with the next pool (continue),
\* out of the for loop (break), or unwinding main (panic).
Step(pool, outcome, control, data) ==
    [kind |-> "Step", pool |-> pool, outcome |-> outcome, control |-> control,
     data |-> data]

\* The trade of one matched pool whose quote succeeded: lines 167-225.
trade(sell, amt_in, id, pk, built, enc) ==
    IF built = "Err"
    THEN Step(id, "encoder_build_failed", "panic", NoBytes)
    ELSE IF ~B256_from_str_ok(pk) \/ ~PrivateKeySigner_from_bytes_ok(pk)
    THEN Step(id, "signer_key_failed", "panic", NoBytes)
    ELSE IF enc.kind = "Err"
    THEN Step(id, "encode_failed", "panic", NoBytes)
    ELSE IF enc.solutions = <<>>
    THEN Step(id, "no_encoded_solution", "panic", NoBytes)
    ELSE LET encoded == enc.solutions[1]
             executor == encoded.interacting_with
             approve_cd == encode_input(SIG_APPROVE,
                               abi_encode_approve_args(executor, amt_in))
             data == create_multitrade_calldata(
                         sell.address, executor, approve_cd, encoded.swaps)
         IN Step(id, "bundled", "break", data)

loop_body_quits_on_quote_error(id, prs, quote, url, pk, built, enc) ==
    IF id \in prs /\ Url_from_str_ok(url) /\ ~quote.ok
    THEN Step(id, "quote_error", "break", NoBytes)
    ELSE Step(id, "not_in_pairs", "continue", NoBytes)

\* The body of `for (id, states) in m.states.iter()`: lines 148-227.
loop_body(id, prs, quote, url, pk, built, enc) ==
    IF id \notin prs
    THEN Step(id, "not_in_pairs", "continue", NoBytes)
    ELSE LET addrs == component_tokens(id)
             amt_in == unit_amount(addrs[1])
             sell == addrs[1]
         IN IF ~Url_from_str_ok(url)
            THEN Step(id, "rpc_url_failed", "panic", NoBytes)
            ELSE IF ~quote.ok
            THEN Step(id, "quote_error", "continue", NoBytes)
            ELSE IF sell.symbol # "WBTC"
            THEN Step(id, "filtered", "continue", NoBytes)
            ELSE trade(sell, amt_in, id, pk, built, enc)

InitMain ==
    /\ pc = "while"
    /\ EncodeIdle
    /\ BundleIdle
    /\ SwapIdle
    /\ RPC_URL \in RpcUrls
    /\ PRIVATE_KEY \in PrivateKeys
    /\ received = 0
    /\ states = << >>
    /\ pairs = {}
    /\ pending = {}
    /\ bundled = {}
    /\ errors_logged = 0
    /\ last = None

\* stream.next() yields Ok(m): the for loop over m.states starts.
StreamOk ==
    /\ pc = "while"
    /\ received < MaxMessages
    /\ \E ids \in SUBSET PoolIds :
          \E st \in [ids -> QuoteAnswers] :
             /\ states' = st
             /\ pending' = ids
    /\ pairs' \in SUBSET PoolIds
    /\ received' = received + 1
    /\ bundled' = {}
    /\ last' = None
    /\ pc' = "for"
    /\ UNCHANGED <<RPC_URL, PRIVATE_KEY, errors_logged>>
    /\ UNCHANGED <<encVars, bundleVars, swapVars>>

\* stream.next() yields Err(e): logged, and the while loop goes on.
StreamErr ==
    /\ pc = "while"
    /\ received < MaxMessages
    /\ received' = received + 1
    /\ errors_logged' = errors_logged + 1
    /\ UNCHANGED <<pc, RPC_URL, PRIVATE_KEY, states, pairs, pending, bundled,
                   last>>
    /\ UNCHANGED <<encVars, bundleVars, swapVars>>

\* stream.next() yields None: main returns Ok(()).
StreamEnd ==
    /\ pc = "while"
    /\ pc' = "exit"
    /\ UNCHANGED mainVars
    /\ UNCHANGED <<encVars, bundleVars, swapVars>>

\* One iteration of the for loop, on any pool not yet visited (the order of
\* a HashMap's iteration is arbitrary).
ForPool ==
    /\ pc = "for"
    /\ \E id \in pending, built \in BuilderAnswers, enc \in MainEncoderAnswers :
          LET step == loop_body(id, pairs, states[id], RPC_URL, PRIVATE_KEY,
                                built, enc)
          IN /\ last' = step
             /\ pending' = pending \ {id}
             /\ bundled' = IF step.outcome = "bundled"
                           THEN bundled \cup {[pool |-> id, data |-> step.data,
                                                encoded |-> enc.solutions[1]]}
                           ELSE bundled
             /\ pc' = CASE step.control = "continue" -> "for"
                        [] step.control = "break" -> "while"
                        [] step.control = "panic" -> "panic"
    /\ UNCHANGED <<RPC_URL, PRIVATE_KEY, received, states, pairs, errors_logged>>
    /\ UNCHANGED <<encVars, bundleVars, swapVars>>

\* The iterator is exhausted: back to stream.next().
ForEnd ==
    /\ pc = "for"
    /\ pending = {}
    /\ pc' = "while"
    /\ UNCHANGED mainVars
    /\ UNCHANGED <<encVars, bundleVars, swapVars>>

NextMain == StreamOk \/ StreamErr \/ StreamEnd \/ ForPool \/ ForEnd

SpecMain == InitMain /\ [][NextMain]_vars

---------------------------------------------------------------------------
(* Reading ABI-encoded bytes back (used to state the properties).          *)

\* The value of the 32-byte word at byte offset `off`; -1 when the word is
\* cut short or does not fit the model's integers.
WordAt(b, off) ==
    IF off < 0 \/ off + WordSize > Len(b) THEN -1
    ELSE IF \E i \in 1..(WordSize - 4) : b[off + i] # 0 THEN -1
    ELSE IF b[off + WordSize - 3] >= 128 THEN -1
    ELSE b[off + WordSize - 3] * 16777216 + b[off + WordSize - 2] * 65536
         + b[off + WordSize - 1] * 256 + b[off + WordSize]

\* The `bytes` value whose length word sits at byte offset `off`.
BytesAt(b, off) ==
    LET n == WordAt(b, off)
    IN IF n < 0 \/ off + WordSize + n > Len(b) THEN NoBytes
       ELSE SubSeq(b, off + WordSize + 1, off + WordSize + n)

DataAt(b, off) ==
    Data(WordAt(b, off), WordAt(b, off + WordSize),
         BytesAt(b, off + WordAt(b, off + 2 * WordSize)))

\* The arguments of an executeInteractions call, decoded from its calldata.
DecodeCall(cd) ==
    LET p == SubSeq(cd, 5, Len(cd))
        arr == WordAt(p, 0)
        n == WordAt(p, arr)
        base == arr + WordSize
    IN [selector |-> SubSeq(cd, 1, 4),
        interactions |-> [i \in 1..n |->
                            DataAt(p, base + WordAt(p, base + WordSize * (i - 1)))],
        tokenAddress |-> WordAt(p, WordSize),
        isTest |-> WordAt(p, 2 * WordSize)]

---------------------------------------------------------------------------
(* Properties of the bundler.                                              *)

\* C1: the calldata returned by create_multitrade_calldata decodes to exactly
\* two interactions, first {token address, 0, approve payload} and then
\* {executor address, 0, swap payload}; the second argument is the token
\* address and the mode argument is 1, whatever the payloads are.
C1_BundleIsApproveThenSwap ==
    (pc = "bundle" /\ encoded_data # NoBytes) =>
        LET d == DecodeCall(encoded_data)
        IN /\ d.selector = Keccak4(SIG_EXECUTE_INTERACTIONS)
           /\ Len(d.interactions) = 2
           /\ d.interactions[1] = Data(token_address, 0, approve_calldata)
           /\ d.interactions[2] = Data(executor_address, 0, swap_calldata)
           /\ d.tokenAddress = token_address
           /\ d.isTest = 1

\* A bundle of an empty approve payload and a non-empty swap payload, with
\* distinct token and executor addresses, has been encoded.
C1_Witness ==
    /\ pc = "bundle"
    /\ encoded_data # NoBytes
    /\ token_address = 4660
    /\ executor_address = 17
    /\ approve_calldata = <<>>
    /\ swap_calldata = Word(7)
    /\ Len(DecodeCall(encoded_data).interactions) = 2

---------------------------------------------------------------------------
(* Properties of the selector encoder.                                     *)

\* The first 32 bytes of A are 31 zero bytes followed by 0x20.
FirstWordIs32(A) ==
    /\ Len(A) >= 32
    /\ \A i \in 1..32 : A[i] = (IF i = 32 THEN 32 ELSE 0)

\* A begins with two such headers and at least one more byte follows.
TwoHeadersThenData(A) ==
    /\ Len(A) > 64
    /\ \A i \in 1..64 : A[i] = (IF i \in {32, 64} THEN 32 ELSE 0)

\* C3 (as claimed): a second application of the strip step never changes
\* the result of the first.
C3_StripTwiceSameAsOnce ==
    [][(pc = "encode" /\ strips = 1) => stripped' = stripped]_vars

\* C3 (amended): a second application of the strip step leaves the result of
\* the first unchanged exactly when A does not begin with two consecutive
\* offset-32 headers followed by at least one more byte.
C3_StripIdempotentUnlessTwoHeaders ==
    [][(pc = "encode" /\ strips = 1 /\ strips' = 2) =>
          ((stripped' = stripped) <=> ~TwoHeadersThenData(encoded_args))]_vars

\* One header followed by a word: stripped once, untouched by the second strip.
C3_Witness ==
    /\ pc = "encode"
    /\ strips = 2
    /\ encoded_args = DynamicPrefix \o Word(7)
    /\ stripped = Word(7)

\* C4 (as claimed): encode_input drops the first 32 bytes of A whenever they
\* are the offset-32 header, also when A is exactly those 32 bytes.
C4_StripsWheneverHeader ==
    (pc = "encode" /\ call_data # NoBytes) =>
        call_data = Keccak4(selector) \o
            (IF FirstWordIs32(encoded_args)
             THEN SubSeq(encoded_args, 33, Len(encoded_args))
             ELSE encoded_args)

\* C4 (amended): encode_input(S, A) is selector(S) followed by A without its
\* first 32 bytes when A is longer than 32 bytes and begins with the header,
\* and selector(S) followed by A unchanged otherwise (so also when A is
\* exactly the header); the bytes after the selector are the same for every S.
C4_StripsHeaderOnlyWhenLonger ==
    (pc = "encode" /\ call_data # NoBytes) =>
        LET rest == SubSeq(call_data, 5, Len(call_data))
        IN /\ Len(call_data) >= 4
           /\ SubSeq(call_data, 1, 4) = Keccak4(selector)
           /\ rest = (IF FirstWordIs32(encoded_args) /\ Len(encoded_args) > 32
                      THEN SubSeq(encoded_args, 33, Len(encoded_args))
                      ELSE encoded_args)
           /\ \A s \in Signatures :
                 LET other == encode_input(s, encoded_args)
                 IN SubSeq(other, 5, Len(other)) = rest

\* encode_input has run on an A that is exactly the 32-byte header and
\* returned the selector followed by all 32 bytes.
C4_Witness ==
    /\ pc = "encode"
    /\ encoded_args = DynamicPrefix
    /\ call_data = Keccak4(selector) \o DynamicPrefix

---------------------------------------------------------------------------
(* Properties of process_swap.                                             *)

\* The argument bytes of the swap call inside a returned request: the data
\* of the second interaction, without its 4-byte selector.
SwapArgsOf(tx) ==
    LET cd == DecodeCall(tx.input).interactions[2].callData
    IN SubSeq(cd, 5, Len(cd))

\* The k-th head word of an argument tuple.
Field(args, k) == WordAt(args, WordSize * (k - 1))

SingleLayout == {SIG_SINGLE, SIG_SINGLE_PERMIT2}
SequentialLayout == {SIG_SEQUENTIAL}
SplitLayout == {SIG_SPLIT}
Unrecognized == {SIG_EXECUTOR, SIG_EMPTY}

EncoderGaveCall == encoder.kind = "Ok" /\ encoder.solutions # <<>>

\* C2: the Solution's checked amount is Q*(10000-500)/10000 truncated, never
\* more than the quoted amount Q, and the fourth field of the swap tuple of
\* a returned request carries the same value.
C2_MinimumAmount ==
    (pc = "returned" /\ solution # None) =>
        LET minimum == (amount_out * (10000 - 500)) \div 10000
        IN /\ solution.checked_amount = minimum
           /\ solution.checked_amount <= amount_out
           /\ result.kind = "Ok" => Field(SwapArgsOf(result.tx), 4) = minimum

\* A quote of 199999 was processed into a request with minimum 189999.
C2_Witness ==
    /\ pc = "returned"
    /\ amount_out = 199999
    /\ result.kind = "Ok"
    /\ solution.checked_amount = 189999
    /\ Field(SwapArgsOf(result.tx), 4) = 189999

\* C5: when the encoder returns a call whose signature contains none of
\* singleSwap, sequentialSwap, splitSwap, process_swap returns an error and
\* no request; with a usable key the error is the unsupported-signature one.
C5_UnrecognizedSignatureIsError ==
    (pc = "returned" /\ EncoderGaveCall
        /\ encoder.solutions[1].function_signature \in Unrecognized) =>
        /\ result.kind = "Err"
        /\ result.tx = None
        /\ private_key = "key_ok" => result.error = "Unsupported function signature"

\* The executor-style signature reached the dispatcher and was rejected.
C5_Witness ==
    /\ pc = "returned"
    /\ private_key = "key_ok"
    /\ EncoderGaveCall
    /\ encoder.solutions[1].function_signature = SIG_EXECUTOR
    /\ result = Err("Unsupported function signature")

\* C6: a returned request carries the tuple of its signature's shape: nine
\* fields (given amount, given token, checked token, minimum, wrap, unwrap,
\* receiver, transfer-from, route bytes) for single and sequential swaps,
\* ten for split swaps with the token count between unwrap and receiver;
\* wrap and unwrap are false, transfer-from is true.
C6_TupleLayout ==
    (pc = "returned" /\ result.kind = "Ok") =>
        LET e == encoder.solutions[1]
            sig == e.function_signature
            args == SwapArgsOf(result.tx)
            common == << amount_in, sell_token.address, buy_token.address,
                         solution.checked_amount, 0, 0 >>
            fields == IF sig \in SplitLayout
                      THEN common \o << e.n_tokens, solution.receiver, 1 >>
                      ELSE common \o << solution.receiver, 1 >>
            n == Len(fields) + 1
        IN /\ sig \in SingleLayout \cup SequentialLayout \cup SplitLayout
           /\ n = (IF sig \in SplitLayout THEN 10 ELSE 9)
           /\ \A k \in 1..(n - 1) : Field(args, k) = fields[k]
           /\ Field(args, n) = n * WordSize
           /\ BytesAt(args, n * WordSize) = e.swaps
           /\ Len(args) = (n + 1) * WordSize + Len(Pad32(e.swaps))

\* A split-swap request with non-empty route bytes was returned.
C6_Witness ==
    /\ pc = "returned"
    /\ result.kind = "Ok"
    /\ encoder.solutions[1].function_signature = SIG_SPLIT
    /\ encoder.solutions[1].swaps = <<171, 205, 239>>
    /\ Field(SwapArgsOf(result.tx), 7) = 2

\* C9: every call of process_swap ends either in an error value or in a
\* complete request (gateway, wallet, value 0, the bundle of the approve and
\* swap payloads); it never ends without returning.
C9_ErrorOrCompleteRequest ==
    (pc = "returned") =>
        \/ result.kind = "Err" /\ result.tx = None
        \/ /\ result.kind = "Ok"
           /\ result.tx.to = OUR_CONTRACT
           /\ result.tx.from = ARBITRAGE_WALLET_ADDRESS
           /\ result.tx.value = 0
           /\ Len(DecodeCall(result.tx.input).interactions) = 2

---------------------------------------------------------------------------
(* Properties of the orchestrator loop.                                    *)

TradeFailures == {"encoder_build_failed", "signer_key_failed", "encode_failed"}

\* Pool ids of the current message that are in both mappings, sell WBTC and
\* have a successful quote.
Eligible ==
    {p \in (DOMAIN states) \cap pairs :
        component_tokens(p)[1].symbol = "WBTC" /\ states[p].ok}

BundledPools == {b.pool : b \in bundled}

\* C7: a failure to build the encoder, to parse the signer key or to encode
\* the solution for one matched pool never ends the process.
C7_TradeFailureDoesNotAbort ==
    (last.kind = "Step" /\ last.outcome \in TradeFailures) => pc # "panic"

\* C8: an iteration whose quote failed produces no bundle and leaves the for
\* loop running over the pools not yet visited; a stream error is logged
\* once and leaves the while loop waiting for the next message.
C8_QuoteOrStreamErrorContinues ==
    [][/\ (pc = "for" /\ pending' # pending /\ last'.outcome = "quote_error") =>
            /\ pc' = "for"
            /\ bundled' = bundled
            /\ pending' = pending \ {last'.pool}
            /\ ~last'.pool \in BundledPools
            /\ received' = received
       /\ (errors_logged' # errors_logged) =>
            /\ pc = "while" /\ pc' = "while"
            /\ errors_logged' = errors_logged + 1
            /\ bundled' = bundled]_vars

\* After a logged stream error and a failed quote on a matched pool, a later
\* pool of the same message was still bundled.
C8_Witness ==
    /\ pc = "while"
    /\ errors_logged >= 1
    /\ bundled # {}
    /\ \E p \in ((DOMAIN states) \cap pairs) \ pending : ~states[p].ok

\* C10: once the for loop over a message is over, every eligible pool of that
\* message has its own bundle.
C10_EveryEligiblePoolBundled ==
    (pc = "while" /\ received > 0) => Eligible \subseteq BundledPools

---------------------------------------------------------------------------
(* Properties of the swap payload inside a bundle.                         *)

\* The calldata cd is a call of encoded's function: the 4-byte selector of
\* its signature, then a serialized argument tuple (at least nine head
\* words and the length word of the route bytes), not the route bytes alone.
IsEncodedCall(cd, encoded) ==
    /\ Len(cd) >= 4 + 10 * WordSize
    /\ SubSeq(cd, 1, 4) = Keccak4(encoded.function_signature)
    /\ cd # encoded.swaps

SwapDataOf(data) == DecodeCall(data).interactions[2].callData

\* C11: in every bundle the orchestrator produces, the data of the swap
\* interaction is the selector of the encoded call's signature followed by
\* the serialized swap arguments, never the raw route bytes alone.
C11_SwapDataIsEncodedCall ==
    \A b \in bundled : IsEncodedCall(SwapDataOf(b.data), b.encoded)

\* The same property of the requests process_swap returns (which main does
\* not call).
ProcessSwapDataIsEncodedCall ==
    (pc = "returned" /\ result.kind = "Ok") =>
        IsEncodedCall(SwapDataOf(result.tx.input), encoder.solutions[1])

---------------------------------------------------------------------------
(* Properties of the approve payload inside a request of process_swap.     *)

ApproveOf(data) == DecodeCall(data).interactions[1]

\* The approve interaction of the bundle `data` is approve(spender, amount)
\* on `token`: the approve selector and exactly two argument words.
IsApprove(data, token, spender, amount) ==
    LET a == ApproveOf(data)
        args == SubSeq(a.callData, 5, Len(a.callData))
    IN /\ a.target = token
       /\ SubSeq(a.callData, 1, 4) = Keccak4(SIG_APPROVE)
       /\ Len(args) = 2 * WordSize
       /\ Field(args, 1) = spender
       /\ Field(args, 2) = amount

\* The Solution passes amount_in on unmodified and the swap interaction
\* targets the encoder's destination contract.
GivenAmountPassedThrough ==
    /\ solution.given_amount = amount_in
    /\ Len(solution.swaps) = 1
    /\ solution.swaps[1].estimated_amount_in = amount_in
    /\ solution.given_token = sell_token.address
    /\ DecodeCall(result.tx.input).interactions[2].target
           = encoder.solutions[1].interacting_with

\* C12: in every request process_swap returns, the approve interaction is
\* approve(spender, amount) on the sell token (the Solution's given token),
\* with spender the target of the swap interaction and amount the Solution's
\* given amount, which is amount_in and the leg's estimated input amount.
C12_ApproveAgreesWithSwap ==
    (pc = "returned" /\ result.kind = "Ok") =>
        /\ GivenAmountPassedThrough
        /\ IsApprove(result.tx.input, solution.given_token,
                     DecodeCall(result.tx.input).interactions[2].target,
                     solution.given_amount)

\* The same, for every destination contract whose address word is not the
\* offset-32 pattern that encode_input strips.
ApproveAgreesUnlessSpenderIsPrefix ==
    (pc = "returned" /\ result.kind = "Ok"
        /\ Word(encoder.solutions[1].interacting_with) # DynamicPrefix) =>
        /\ GivenAmountPassedThrough
        /\ IsApprove(result.tx.input, solution.given_token,
                     DecodeCall(result.tx.input).interactions[2].target,
                     solution.given_amount)

\* With such a destination contract the approve payload is the selector and
\* the amount word alone: the spender word has been stripped.
ApproveLosesSpenderWhenPrefix ==
    (pc = "returned" /\ result.kind = "Ok"
        /\ Word(encoder.solutions[1].interacting_with) = DynamicPrefix) =>
        /\ GivenAmountPassedThrough
        /\ ApproveOf(result.tx.input).callData
               = Keccak4(SIG_APPROVE) \o Word(amount_in)

===========================================================================
